---- MODULE Spec2Model ----
(***************************************************************************)
(* cameractrls.py: the three control sources of a V4L2 capture device      *)
(* (V4L2Ctrls, KiyoProCtrls, LogitechCtrls) and their aggregator           *)
(* CameraCtrls, with the driver and the two extension units as the         *)
(* environment.                                                            *)
(*                                                                         *)
(* Text (a Python str or bytes) is a sequence of one-character strings, so *)
(* that lower(), translate(), replace(), str() and int() are computed      *)
(* character by character.  A Python value that may be an int, a str or    *)
(* None (BaseCtrl.value, .default, .min, ...) is a tagged record.          *)
(***************************************************************************)
EXTENDS Integers, Sequences, FiniteSets, TLC

(* ------------------------------------------------------------------ *)
(* Bounds of the model                                                   *)
(* ------------------------------------------------------------------ *)

\* controls the driver reports in one session
MaxCtrls == 2
\* entries of a map handed to CameraCtrls.setup_ctrls by a caller
MaxParams == 2
\* controls the driver reports in the enumeration-order specification
MaxEnum == 4

(* ------------------------------------------------------------------ *)
(* Python values                                                         *)
(* ------------------------------------------------------------------ *)

IntV(n) == [k |-> "int", i |-> n, s |-> <<>>]
StrV(t) == [k |-> "str", i |-> 0, s |-> t]
NoneV == [k |-> "none", i |-> 0, s |-> <<>>]

Digits == <<"0", "1", "2", "3", "4", "5", "6", "7", "8", "9">>
UpperCase == <<"A", "B", "C", "D", "E", "F", "G", "H", "I", "J", "K", "L", "M",
               "N", "O", "P", "Q", "R", "S", "T", "U", "V", "W", "X", "Y", "Z">>
LowerCase == <<"a", "b", "c", "d", "e", "f", "g", "h", "i", "j", "k", "l", "m",
               "n", "o", "p", "q", "r", "s", "t", "u", "v", "w", "x", "y", "z">>

IsDigit(c) == \E d \in 1..10 : Digits[d] = c
DigitVal(c) == (CHOOSE d \in 1..10 : Digits[d] = c) - 1

\* str(n) of a Python int
RECURSIVE NatToText(_)
NatToText(n) ==
    IF n < 10 THEN <<Digits[n + 1]>>
    ELSE NatToText(n \div 10) \o <<Digits[(n % 10) + 1]>>

IntToText(n) == IF n < 0 THEN <<"-">> \o NatToText(0 - n) ELSE NatToText(n)

\* str.strip() of the blanks int() ignores
RECURSIVE LStrip(_)
LStrip(t) == IF t # <<>> /\ t[1] = " " THEN LStrip(Tail(t)) ELSE t

RECURSIVE RStrip(_)
RStrip(t) ==
    IF t # <<>> /\ t[Len(t)] = " " THEN RStrip(SubSeq(t, 1, Len(t) - 1)) ELSE t

\* the digits of an int() literal: digits, single underscores between them
IsIntBody(b) ==
    /\ b # <<>>
    /\ IsDigit(b[1])
    /\ IsDigit(b[Len(b)])
    /\ \A j \in 1..Len(b) : IsDigit(b[j]) \/ b[j] = "_"
    /\ \A j \in 1..(Len(b) - 1) : ~(b[j] = "_" /\ b[j + 1] = "_")

RECURSIVE BodyVal(_, _)
BodyVal(b, acc) ==
    IF b = <<>> THEN acc
    ELSE IF b[1] = "_" THEN BodyVal(Tail(b), acc)
    ELSE BodyVal(Tail(b), 10 * acc + DigitVal(b[1]))

\* int(v) of a Python str: ok = FALSE is the ValueError
ParseInt(t) ==
    LET u == RStrip(LStrip(t))
        signed == u # <<>> /\ u[1] \in {"+", "-"}
        b == IF signed THEN Tail(u) ELSE u
    IN  IF IsIntBody(b)
        THEN [ok |-> TRUE,
              i |-> IF signed /\ u[1] = "-" THEN 0 - BodyVal(b, 0) ELSE BodyVal(b, 0)]
        ELSE [ok |-> FALSE, i |-> 0]

\* bool(v) of a Python str
PyBool(t) == t # <<>>

NoneText == <<"N", "o", "n", "e">>

\* str(x), as an f-string renders a control's value
PyStr(x) ==
    CASE x.k = "int" -> IntToText(x.i)
      [] x.k = "str" -> x.s
      [] OTHER -> NoneText

(* ------------------------------------------------------------------ *)
(* Program constants                                                     *)
(* ------------------------------------------------------------------ *)

V4L2_CTRL_TYPE_INTEGER == 1
V4L2_CTRL_TYPE_BOOLEAN == 2
V4L2_CTRL_TYPE_MENU == 3
V4L2_CTRL_TYPE_BUTTON == 4
V4L2_CTRL_TYPE_INTEGER_MENU == 9

V4L2_CTRL_FLAG_INACTIVE == 16

V4L2_CTRL_CLASS_USER == 9961472
V4L2_CTRL_CLASS_CAMERA == 10092544

V4L2_CID_BASE == V4L2_CTRL_CLASS_USER + 2304
V4L2_CID_AUTO_WHITE_BALANCE == V4L2_CID_BASE + 12
V4L2_CID_WHITE_BALANCE_TEMPERATURE == V4L2_CID_BASE + 26

V4L2_CID_CAMERA_CLASS_BASE == V4L2_CTRL_CLASS_CAMERA + 2304
V4L2_CID_EXPOSURE_AUTO == V4L2_CID_CAMERA_CLASS_BASE + 1
V4L2_CID_FOCUS_AUTO == V4L2_CID_CAMERA_CLASS_BASE + 12
V4L2_CID_FOCUS_ABSOLUTE == V4L2_CID_CAMERA_CLASS_BASE + 10
V4L2_CID_ISO_SENSITIVITY_AUTO == V4L2_CID_CAMERA_CLASS_BASE + 24

V4L2_CTRL_UPDATERS ==
    {V4L2_CID_EXPOSURE_AUTO, V4L2_CID_FOCUS_AUTO,
     V4L2_CID_AUTO_WHITE_BALANCE, V4L2_CID_ISO_SENSITIVITY_AUTO}

\* the dict's items, in insertion order
V4L2_CTRL_REORDERS ==
    << <<V4L2_CID_FOCUS_AUTO, V4L2_CID_FOCUS_ABSOLUTE>>,
       <<V4L2_CID_AUTO_WHITE_BALANCE, V4L2_CID_WHITE_BALANCE_TEMPERATURE>> >>

UVC_SET_CUR == 1
UVC_GET_CUR == 129
UVC_GET_MIN == 130
UVC_GET_MAX == 131
UVC_GET_LEN == 133
UVC_GET_DEF == 135

EU1_SET_ISP == 1

AF_RESPONSIVE == <<255, 6, 0, 0, 0, 0, 0, 0>>
AF_PASSIVE == <<255, 6, 1, 0, 0, 0, 0, 0>>
HDR_OFF == <<255, 2, 0, 0, 0, 0, 0, 0>>
HDR_ON == <<255, 2, 1, 0, 0, 0, 0, 0>>
HDR_DARK == <<255, 7, 0, 0, 0, 0, 0, 0>>
HDR_BRIGHT == <<255, 7, 1, 0, 0, 0, 0, 0>>
FOV_WIDE == <<255, 1, 0, 3, 0, 0, 0, 0>>
FOV_MEDIUM_PRE == <<255, 1, 0, 3, 1, 0, 0, 0>>
FOV_MEDIUM == <<255, 1, 1, 3, 1, 0, 0, 0>>
FOV_NARROW_PRE == <<255, 1, 0, 3, 2, 0, 0, 0>>
FOV_NARROW == <<255, 1, 1, 3, 2, 0, 0, 0>>
SAVE == <<192, 3, 168, 0, 0, 0, 0, 0>>

KIYO_PRO_USB_ID == <<"1", "5", "3", "2", ":", "0", "e", "0", "5">>

LOGITECH_PERIPHERAL_LED1_SEL == 9
LOGITECH_PERIPHERAL_LED1_LEN == 5
LOGITECH_PERIPHERAL_LED1_MODE_OFFSET == 1
LOGITECH_PERIPHERAL_LED1_MODE_OFF == 0
LOGITECH_PERIPHERAL_LED1_MODE_ON == 1
LOGITECH_PERIPHERAL_LED1_MODE_BLINK == 2
LOGITECH_PERIPHERAL_LED1_MODE_AUTO == 3
LOGITECH_PERIPHERAL_LED1_FREQUENCY_OFFSET == 3

(* ------------------------------------------------------------------ *)
(* Helpers                                                               *)
(* ------------------------------------------------------------------ *)

\* find_by_value: the position of the first entry with that value, 0 for None
find_by_value(menu, value) ==
    IF \E j \in 1..Len(menu) : menu[j].value = value
    THEN CHOOSE j \in 1..Len(menu) :
            /\ menu[j].value = value
            /\ \A h \in 1..(j - 1) : menu[h].value # value
    ELSE 0

\* find_by_text_id: the position of the first element with that id, 0 for None
find_by_text_id(ctrls, text_id) ==
    IF \E j \in 1..Len(ctrls) : ctrls[j].text_id = text_id
    THEN CHOOSE j \in 1..Len(ctrls) :
            /\ ctrls[j].text_id = text_id
            /\ \A h \in 1..(j - 1) : ctrls[h].text_id # text_id
    ELSE 0

\* find_idx(ctrls, lambda c: c._id == id): Python's index, -1 for None
find_idx(ctrls, id) ==
    IF \E j \in 1..Len(ctrls) : ctrls[j]._id = id
    THEN (CHOOSE j \in 1..Len(ctrls) :
            /\ ctrls[j]._id = id
            /\ \A h \in 1..(j - 1) : ctrls[h]._id # id) - 1
    ELSE -1

\* list.pop(i) and list.insert(i, x), i Python's index
ListPop(s, i) == SubSeq(s, 1, i) \o SubSeq(s, i + 2, Len(s))
ListInsert(s, i, x) == SubSeq(s, 1, i) \o <<x>> \o SubSeq(s, i + 1, Len(s))

\* bytes.lower()
LowerChar(c) ==
    IF \E j \in 1..26 : UpperCase[j] = c
    THEN LowerCase[CHOOSE j \in 1..26 : UpperCase[j] = c]
    ELSE c

\* strtrans = bytes.maketrans(b' -', b'__')
strtrans(c) == IF c \in {" ", "-"} THEN "_" ELSE c

DeletedChars == {",", "&", "(", ".", ")", "/"}

\* bytes.translate(table, delete): delete first, then map what is left
RECURSIVE Translate(_)
Translate(t) ==
    IF t = <<>> THEN <<>>
    ELSE IF t[1] \in DeletedChars THEN Translate(Tail(t))
    ELSE <<strtrans(t[1])>> \o Translate(Tail(t))

\* bytes.replace(b'__', b'_'): one pass, left to right, not overlapping
RECURSIVE ReplaceDouble(_)
ReplaceDouble(t) ==
    IF Len(t) < 2 THEN t
    ELSE IF t[1] = "_" /\ t[2] = "_" THEN <<"_">> \o ReplaceDouble(SubSeq(t, 3, Len(t)))
    ELSE <<t[1]>> \o ReplaceDouble(Tail(t))

to_text_id(text) ==
    ReplaceDouble(Translate([j \in 1..Len(text) |-> LowerChar(text[j])]))

(* ------------------------------------------------------------------ *)
(* V4L2Ctrls.get_device_controls                                         *)
(* ------------------------------------------------------------------ *)

\* V4L2Ctrls.to_type.get(qctrl.type)
to_type(t) ==
    CASE t = V4L2_CTRL_TYPE_INTEGER -> "integer"
      [] t = V4L2_CTRL_TYPE_BOOLEAN -> "boolean"
      [] t = V4L2_CTRL_TYPE_MENU -> "menu"
      [] t = V4L2_CTRL_TYPE_INTEGER_MENU -> "menu"
      [] OTHER -> "none"

EnumeratedTypes ==
    {V4L2_CTRL_TYPE_INTEGER, V4L2_CTRL_TYPE_BOOLEAN,
     V4L2_CTRL_TYPE_MENU, V4L2_CTRL_TYPE_INTEGER_MENU}

\* bool(qctrl.flags & V4L2_CTRL_FLAG_INACTIVE)
FlagInactive(flags) == (flags \div V4L2_CTRL_FLAG_INACTIVE) % 2 = 1

\* One pass of the loop over range(qctrl.minimum, qctrl.maximum + 1): the
\* driver answers VIDIOC_QUERYMENU for the indices of q.items and rejects the
\* others; c is the control with the menu built so far.
RECURSIVE BuildMenu(_, _, _)
BuildMenu(q, i, c) ==
    IF i > q.maximum THEN c
    ELSE IF ~(\E m \in 1..Len(q.items) : q.items[m].index = i)
    THEN BuildMenu(q, i + 1, c)
    ELSE
        LET qmenu == q.items[CHOOSE m \in 1..Len(q.items) : q.items[m].index = i]
            menu_text_id ==
                IF q.type = V4L2_CTRL_TYPE_MENU THEN to_text_id(qmenu.name)
                ELSE IntToText(qmenu.value)
            v4l2menu == [text_id |-> menu_text_id, value |-> qmenu.index]
        IN  BuildMenu(q, i + 1,
                [c EXCEPT !.menu = Append(@, v4l2menu),
                          !.value = IF @ = IntV(qmenu.index) THEN StrV(menu_text_id) ELSE @,
                          !.default = IF @ = IntV(qmenu.index) THEN StrV(menu_text_id) ELSE @])

\* The V4L2Ctrl built for one answer of VIDIOC_QUERYCTRL; cur is the value
\* VIDIOC_G_CTRL left in ctrl.value (0 when the request failed).
NewV4L2Ctrl(q, cur, flags) ==
    LET c == [_id |-> q.id,
              text_id |-> to_text_id(q.name),
              type |-> to_type(q.type),
              value |-> IntV(cur),
              default |-> IntV(q.default),
              min |-> IntV(q.minimum),
              max |-> IntV(q.maximum),
              step |-> IntV(q.step),
              updater |-> q.id \in V4L2_CTRL_UPDATERS,
              inactive |-> FlagInactive(flags),
              menu |-> <<>>]
    IN  IF q.type \in {V4L2_CTRL_TYPE_MENU, V4L2_CTRL_TYPE_INTEGER_MENU}
        THEN BuildMenu(q, q.minimum, c)
        ELSE c

\* The while loop: the driver's answers to VIDIOC_QUERYCTRL with
\* NEXT_CTRL | NEXT_COMPOUND are qs, in the order it gives them.
RECURSIVE EnumerateCtrls(_, _, _, _)
EnumerateCtrls(qs, vals, flags, ctrls) ==
    IF qs = <<>> THEN ctrls
    ELSE
        LET q == qs[1]
            cur == IF vals[q.id].readable THEN vals[q.id].val ELSE 0
        IN  EnumerateCtrls(Tail(qs), vals, flags,
                IF q.type \in EnumeratedTypes
                THEN Append(ctrls, NewV4L2Ctrl(q, cur, flags[q.id]))
                ELSE ctrls)

\* if what and where: None and index 0 are both false
Truthy(i) == i > 0

\* One item of V4L2_CTRL_REORDERS
ReorderOne(ctrls, pair) ==
    LET what == find_idx(ctrls, pair[1])
        where == find_idx(ctrls, pair[2])
    IN  IF Truthy(what) /\ Truthy(where)
        THEN ListInsert(ListPop(ctrls, what),
                        IF what < where THEN where - 1 ELSE where,
                        ctrls[what + 1])
        ELSE ctrls

RECURSIVE Reorder(_, _)
Reorder(ctrls, pairs) ==
    IF pairs = <<>> THEN ctrls
    ELSE Reorder(ReorderOne(ctrls, pairs[1]), Tail(pairs))

V4L2_get_device_controls(qs, vals, flags) ==
    Reorder(EnumerateCtrls(qs, vals, flags, <<>>), V4L2_CTRL_REORDERS)

(* ------------------------------------------------------------------ *)
(* The extension-unit query primitives                                   *)
(* ------------------------------------------------------------------ *)

\* to_buf(bytes(n)): ctypes.create_string_buffer adds the terminating NUL
RECURSIVE ZeroBuf(_)
ZeroBuf(n) == IF n = 0 THEN <<0>> ELSE Append(ZeroBuf(n - 1), 0)

\* get_length_xu_control: the length the unit reports, 0 when GET_LEN failed
get_length_xu_control(lenOk, devLen) == IF lenOk THEN devLen ELSE 0

\* Whether the payload request of query_xu_control moves data: the ioctl must
\* succeed, and the driver refuses a size that is not the control's length.
XuTransfers(lenOk, ok, devLen) == ok /\ get_length_xu_control(lenOk, devLen) = devLen

\* query_xu_control with a GET_* query: data afterwards
XuGet(dev, data, lenOk, ok) ==
    IF XuTransfers(lenOk, ok, Len(dev))
    THEN dev \o SubSeq(data, Len(dev) + 1, Len(data))
    ELSE data

\* query_xu_control with SET_CUR: the unit's register afterwards
XuSet(dev, data, lenOk, ok) ==
    IF XuTransfers(lenOk, ok, Len(dev)) THEN SubSeq(data, 1, Len(dev)) ELSE dev

\* The requests one query_xu_control call issues, as the log records them
XuRequests(unit, selector, query, data) ==
    << [unit |-> unit, selector |-> selector, query |-> UVC_GET_LEN, data |-> <<>>],
       [unit |-> unit, selector |-> selector, query |-> query,
        data |-> IF query = UVC_SET_CUR THEN data ELSE <<>>] >>

(* ------------------------------------------------------------------ *)
(* KiyoProCtrls                                                          *)
(* ------------------------------------------------------------------ *)

kiyo_pro_af_mode == <<"k", "i", "y", "o", "_", "p", "r", "o", "_", "a", "f", "_", "m", "o", "d", "e">>
kiyo_pro_hdr == <<"k", "i", "y", "o", "_", "p", "r", "o", "_", "h", "d", "r">>
kiyo_pro_hdr_mode == <<"k", "i", "y", "o", "_", "p", "r", "o", "_", "h", "d", "r", "_", "m", "o", "d", "e">>
kiyo_pro_fov == <<"k", "i", "y", "o", "_", "p", "r", "o", "_", "f", "o", "v">>
T_passive == <<"p", "a", "s", "s", "i", "v", "e">>
T_responsive == <<"r", "e", "s", "p", "o", "n", "s", "i", "v", "e">>
T_off == <<"o", "f", "f">>
T_on == <<"o", "n">>
T_bright == <<"b", "r", "i", "g", "h", "t">>
T_dark == <<"d", "a", "r", "k">>
T_wide == <<"w", "i", "d", "e">>
T_medium == <<"m", "e", "d", "i", "u", "m">>
T_narrow == <<"n", "a", "r", "r", "o", "w">>
T_blink == <<"b", "l", "i", "n", "k">>
T_auto == <<"a", "u", "t", "o">>

\* KiyoMenu(text_id, name, value, before): before = <<>> is None
KiyoMenu(text_id, value, before) ==
    [text_id |-> text_id, value |-> value, before |-> before]

\* KiyoCtrl.__init__: BaseCtrl with type 'menu' and every other field None
KiyoCtrl(text_id, menu) ==
    [text_id |-> text_id, type |-> "menu", value |-> NoneV, default |-> NoneV,
     min |-> NoneV, max |-> NoneV, step |-> NoneV,
     updater |-> FALSE, inactive |-> FALSE, menu |-> menu]

KiyoSupported(unit_id, ids) == unit_id # 0 /\ ids = KIYO_PRO_USB_ID

Kiyo_get_device_controls(unit_id, ids) ==
    IF ~KiyoSupported(unit_id, ids) THEN <<>>
    ELSE << KiyoCtrl(kiyo_pro_af_mode,
                << KiyoMenu(T_passive, AF_PASSIVE, <<>>),
                   KiyoMenu(T_responsive, AF_RESPONSIVE, <<>>) >>),
            KiyoCtrl(kiyo_pro_hdr,
                << KiyoMenu(T_off, HDR_OFF, <<>>),
                   KiyoMenu(T_on, HDR_ON, <<>>) >>),
            KiyoCtrl(kiyo_pro_hdr_mode,
                << KiyoMenu(T_bright, HDR_BRIGHT, <<>>),
                   KiyoMenu(T_dark, HDR_DARK, <<>>) >>),
            KiyoCtrl(kiyo_pro_fov,
                << KiyoMenu(T_wide, FOV_WIDE, <<>>),
                   KiyoMenu(T_medium, FOV_MEDIUM, FOV_MEDIUM_PRE),
                   KiyoMenu(T_narrow, FOV_NARROW, FOV_NARROW_PRE) >>) >>

\* KiyoEntryFrames with the two requests of an entry exchanged
KiyoEntryFramesMainFirst(menu) ==
    IF menu.before # <<>> THEN <<menu.value, menu.before>> ELSE <<menu.value>>

\* The payload frames of one assignment: if menu._before, it goes first
KiyoEntryFrames(menu) ==
    IF menu.before # <<>> THEN <<menu.before, menu.value>> ELSE <<menu.value>>

(* ------------------------------------------------------------------ *)
(* LogitechCtrls                                                         *)
(* ------------------------------------------------------------------ *)

logitech_led1_mode == <<"l", "o", "g", "i", "t", "e", "c", "h", "_", "l", "e", "d", "1", "_", "m", "o", "d", "e">>
logitech_led1_frequency == <<"l", "o", "g", "i", "t", "e", "c", "h", "_", "l", "e", "d", "1", "_", "f", "r", "e", "q", "u", "e", "n", "c", "y">>

BaseCtrlMenu(text_id, value) == [text_id |-> text_id, value |-> value]

\* LogitechCtrl.__init__: menu = <<>> is None
LogitechCtrl(text_id, type, selector, len, offset, menu) ==
    [text_id |-> text_id, type |-> type, value |-> NoneV, default |-> NoneV,
     min |-> NoneV, max |-> NoneV, step |-> NoneV,
     updater |-> FALSE, inactive |-> FALSE, menu |-> menu,
     selector |-> selector, len |-> len, offset |-> offset]

LogitechDeclared ==
    << LogitechCtrl(logitech_led1_mode, "menu",
            LOGITECH_PERIPHERAL_LED1_SEL, LOGITECH_PERIPHERAL_LED1_LEN,
            LOGITECH_PERIPHERAL_LED1_MODE_OFFSET,
            << BaseCtrlMenu(T_off, LOGITECH_PERIPHERAL_LED1_MODE_OFF),
               BaseCtrlMenu(T_on, LOGITECH_PERIPHERAL_LED1_MODE_ON),
               BaseCtrlMenu(T_blink, LOGITECH_PERIPHERAL_LED1_MODE_BLINK),
               BaseCtrlMenu(T_auto, LOGITECH_PERIPHERAL_LED1_MODE_AUTO) >>),
       LogitechCtrl(logitech_led1_frequency, "integer",
            LOGITECH_PERIPHERAL_LED1_SEL, LOGITECH_PERIPHERAL_LED1_LEN,
            LOGITECH_PERIPHERAL_LED1_FREQUENCY_OFFSET, <<>>) >>

\* A byte of a menu control, mapped to its entry's text id where one matches
MenuText(menu, byte) ==
    IF find_by_value(menu, byte) # 0
    THEN StrV(menu[find_by_value(menu, byte)].text_id)
    ELSE IntV(byte)

\* The body of the loop over self.ctrls: dev holds the frames the unit gives
\* for GET_DEF, GET_MIN, GET_MAX and GET_CUR, ok which of the four requests
\* (with its GET_LEN) went through.
LogitechProbe(c, dev, ok) ==
    LET default_config == XuGet(dev.def, ZeroBuf(c.len), ok.def, ok.def)
        minimum_config == XuGet(dev.min, ZeroBuf(c.len), ok.min, ok.min)
        maximum_config == XuGet(dev.max, ZeroBuf(c.len), ok.max, ok.max)
        current_config == XuGet(dev.cur, ZeroBuf(c.len), ok.cur, ok.cur)
        d == default_config[c.offset + 1]
        v == current_config[c.offset + 1]
    IN  [c EXCEPT !.default = IF c.type = "menu" THEN MenuText(c.menu, d) ELSE IntV(d),
                  !.min = IntV(minimum_config[c.offset + 1]),
                  !.max = IntV(maximum_config[c.offset + 1]),
                  !.value = IF c.type = "menu" THEN MenuText(c.menu, v) ELSE IntV(v)]

LogitechSupported(unit_id) == unit_id # 0

Logitech_get_device_controls(unit_id, dev, ok) ==
    IF ~LogitechSupported(unit_id) THEN <<>>
    ELSE [j \in 1..Len(LogitechDeclared) |-> LogitechProbe(LogitechDeclared[j], dev, ok)]

(* ------------------------------------------------------------------ *)
(* The devices a session may be opened on                                *)
(* ------------------------------------------------------------------ *)

\* One answer of VIDIOC_QUERYCTRL; items are the menu indices the driver
\* answers VIDIOC_QUERYMENU for; inits are the values the control may hold
\* when the session opens, with whether VIDIOC_G_CTRL reads it.
QueryCtrl(id, type, name, minimum, maximum, step, default, items, inits) ==
    [id |-> id, type |-> type, name |-> name, minimum |-> minimum,
     maximum |-> maximum, step |-> step, default |-> default,
     items |-> items, inits |-> inits]

MenuItem(index, name, value) == [index |-> index, name |-> name, value |-> value]

Q_FocusAbsolute ==
    QueryCtrl(V4L2_CID_FOCUS_ABSOLUTE, V4L2_CTRL_TYPE_INTEGER,
              <<"F", "o", "c", "u", "s", " ", "(", "a", "b", "s", "o", "l", "u", "t", "e", ")">>,
              -1, 3, 1, 0, <<>>, {[val |-> -1, readable |-> TRUE]})
Q_FocusAuto ==
    QueryCtrl(V4L2_CID_FOCUS_AUTO, V4L2_CTRL_TYPE_BOOLEAN,
              <<"F", "o", "c", "u", "s", ",", " ", "A", "u", "t", "o">>,
              0, 1, 1, 1, <<>>,
              {[val |-> 0, readable |-> TRUE], [val |-> 1, readable |-> TRUE]})
Q_ExposureAuto ==
    QueryCtrl(V4L2_CID_EXPOSURE_AUTO, V4L2_CTRL_TYPE_MENU,
              <<"E", "x", "p", "o", "s", "u", "r", "e", ",", " ", "A", "u", "t", "o">>,
              0, 3, 1, 3,
              << MenuItem(1, <<"M", "a", "n", "u", "a", "l", " ", "M", "o", "d", "e">>, 0),
                 MenuItem(3, <<"A", "p", "e", "r", "t", "u", "r", "e", " ",
                               "P", "r", "i", "o", "r", "i", "t", "y", " ",
                               "M", "o", "d", "e">>, 0) >>,
              {[val |-> 3, readable |-> TRUE], [val |-> 2, readable |-> TRUE]})
\* a control of the user class whose name folds to an id of KiyoProCtrls
Q_KiyoProHdr ==
    QueryCtrl(V4L2_CID_BASE + 50, V4L2_CTRL_TYPE_BOOLEAN,
              <<"K", "i", "y", "o", " ", "P", "r", "o", " ", "H", "D", "R">>,
              0, 1, 1, 0, <<>>, {[val |-> 0, readable |-> TRUE]})
Q_WhiteBalanceAuto ==
    QueryCtrl(V4L2_CID_AUTO_WHITE_BALANCE, V4L2_CTRL_TYPE_BOOLEAN,
              <<"W", "h", "i", "t", "e", " ", "B", "a", "l", "a", "n", "c", "e", ",", " ", "A", "u", "t", "o">>,
              0, 1, 1, 1, <<>>, {[val |-> 1, readable |-> TRUE]})
Q_WhiteBalanceTemp ==
    QueryCtrl(V4L2_CID_WHITE_BALANCE_TEMPERATURE, V4L2_CTRL_TYPE_INTEGER,
              <<"W", "h", "i", "t", "e", " ", "B", "a", "l", "a", "n", "c", "e", " ", "T", "e", "m", "p", "e", "r", "a", "t", "u", "r", "e">>,
              2800, 6500, 10, 4000, <<>>,
              {[val |-> 4000, readable |-> TRUE]})
Q_Gain ==
    QueryCtrl(V4L2_CID_BASE + 19, V4L2_CTRL_TYPE_INTEGER, <<"G", "a", "i", "n">>,
              0, 255, 1, 64, <<>>, {[val |-> 64, readable |-> TRUE]})
Q_GainDot ==
    QueryCtrl(V4L2_CID_BASE + 51, V4L2_CTRL_TYPE_INTEGER, <<"G", "a", "i", "n", ".">>,
              0, 255, 1, 64, <<>>, {[val |-> 64, readable |-> TRUE]})
Q_LinkFreq ==
    QueryCtrl(V4L2_CID_BASE + 52, V4L2_CTRL_TYPE_INTEGER_MENU,
              <<"L", "i", "n", "k", " ", "F", "r", "e", "q">>,
              0, 1, 1, 0,
              << MenuItem(0, <<>>, 1), MenuItem(1, <<>>, 7) >>,
              {[val |-> 1, readable |-> TRUE]})
Q_Snapshot ==
    QueryCtrl(V4L2_CID_BASE + 53, V4L2_CTRL_TYPE_BUTTON, <<"S", "n", "a", "p", "s", "h", "o", "t">>,
              0, 0, 0, 0, <<>>, {[val |-> 0, readable |-> TRUE]})

\* What a session's driver may report, in the order VIDIOC_QUERYCTRL with
\* NEXT_CTRL walks the ids (ascending)
SessionCatalog == <<Q_KiyoProHdr, Q_ExposureAuto, Q_FocusAbsolute, Q_FocusAuto>>

\* What the driver may report in the enumeration-order specification
EnumCatalog ==
    {Q_WhiteBalanceAuto, Q_WhiteBalanceTemp, Q_FocusAbsolute, Q_FocusAuto,
     Q_Gain, Q_GainDot, Q_LinkFreq, Q_Snapshot}

\* The elements of cat at the positions picked, in cat's order
PickSeq(cat, picked) ==
    LET F[j \in 0..Len(cat)] ==
            IF j = 0 THEN <<>>
            ELSE IF j \in picked THEN Append(F[j - 1], cat[j]) ELSE F[j - 1]
    IN  F[Len(cat)]

SessionLists ==
    {PickSeq(SessionCatalog, picked) :
        picked \in {p \in SUBSET (1..Len(SessionCatalog)) : Cardinality(p) <= MaxCtrls}}

\* Every order of every choice of at most n controls of a catalog
RECURSIVE Orders(_, _)
Orders(cat, n) ==
    IF n = 0 THEN {<<>>}
    ELSE LET shorter == Orders(cat, n - 1)
         IN  shorter \cup
             {Append(l, q) : <<l, q>> \in
                 {lq \in shorter \X cat :
                     /\ Len(lq[1]) = n - 1
                     /\ \A j \in 1..Len(lq[1]) : lq[1][j].id # lq[2].id}}

AllCtrls == {SessionCatalog[j] : j \in 1..Len(SessionCatalog)} \cup EnumCatalog

\* The driver's answer to VIDIOC_QUERYCTRL for a control id
QueryCtrlOf(id) == CHOOSE q \in AllCtrls : q.id = id

\* drv holds the ids the driver reports; these are its answers, in that order
Reported(ids) == [j \in 1..Len(ids) |-> QueryCtrlOf(ids[j])]
IdSeq(qs) == [j \in 1..Len(qs) |-> qs[j].id]
IdSet(ids) == {ids[j] : j \in 1..Len(ids)}

\* The flags the driver reports for a control: the dependent of an 'auto'
\* control is inactive while the auto control is on
DrvFlags(ids, vals) ==
    [id \in IdSet(ids) |->
        IF \E r \in 1..Len(V4L2_CTRL_REORDERS) :
              /\ V4L2_CTRL_REORDERS[r][2] = id
              /\ V4L2_CTRL_REORDERS[r][1] \in IdSet(ids)
              /\ vals[V4L2_CTRL_REORDERS[r][1]].val # 0
        THEN V4L2_CTRL_FLAG_INACTIVE ELSE 0]

\* The frames the Logitech unit answers GET_DEF, GET_MIN and GET_MAX with
LedDef == <<0, 3, 0, 10, 0>>
LedMin == <<0, 0, 0, 0, 0>>
LedMax == <<255, 3, 255, 255, 255>>
\* The LED1 register when the session opens
LedRegisters == {<<9, 1, 8, 5, 7>>, <<9, 7, 8, 5, 7>>}

OTHER_USB_ID == <<"0", "4", "6", "d", ":", "0", "8", "9", "2">>

\* What the two sysfs scans may give: (eu1 unit id, usb ids, logitech unit id)
SysfsWorlds ==
    {[eu1 |-> 3, ids |-> KIYO_PRO_USB_ID, logi |-> 0],
     [eu1 |-> 3, ids |-> OTHER_USB_ID, logi |-> 0],
     [eu1 |-> 0, ids |-> KIYO_PRO_USB_ID, logi |-> 0],
     [eu1 |-> 0, ids |-> OTHER_USB_ID, logi |-> 4]}

\* Which of the four requests of LogitechCtrls.get_device_controls go through
ProbeOutcomes ==
    {[def |-> TRUE, min |-> TRUE, max |-> TRUE, cur |-> TRUE],
     [def |-> FALSE, min |-> FALSE, max |-> FALSE, cur |-> FALSE]}

(* ------------------------------------------------------------------ *)
(* State                                                                 *)
(* ------------------------------------------------------------------ *)

VARIABLES
    drv,        \* the ids of the driver's controls, in the order it reports them
    drvval,     \* per control id, the value the driver holds and whether it reads
    sysfs,      \* what the descriptor and id files of the device give
    reg,        \* the Logitech unit's LED1 register
    v4l2,       \* V4L2Ctrls.ctrls
    kiyo,       \* KiyoProCtrls.ctrls
    logi,       \* LogitechCtrls.ctrls
    pc,         \* where the program is
    params,     \* the map of the running CameraCtrls.setup_ctrls call
    idx,        \* the entry of params the running source's loop is at
    calls,      \* setup_ctrls calls begun: main makes one
    warnings,   \* what the running call logged (value and id warnings)
    xulog,      \* the extension-unit requests of the running call
    ioctls,     \* the VIDIOC_S_CTRL requests of the running call
    hist        \* what the claims need of the running call's past

vars == <<drv, drvval, sysfs, reg, v4l2, kiyo, logi, pc, params, idx, calls,
          warnings, xulog, ioctls, hist>>

NoSet == [kind |-> "none"]

NoHist ==
    [before |-> <<>>, listing |-> FALSE, faithful |-> TRUE,
     lastV4L2 |-> NoSet, lastLogi |-> NoSet, applied |-> {}, given |-> {}]

Unopened ==
    /\ v4l2 = <<>> /\ kiyo = <<>> /\ logi = <<>>
    /\ pc = "start" /\ params = <<>> /\ idx = 0 /\ calls = 0
    /\ warnings = <<>> /\ xulog = <<>> /\ ioctls = <<>> /\ hist = NoHist

InitVals(ids) ==
    {f \in [IdSet(ids) -> UNION {QueryCtrlOf(id).inits : id \in IdSet(ids)}] :
        \A id \in IdSet(ids) : f[id] \in QueryCtrlOf(id).inits}

Init ==
    /\ drv \in {IdSeq(l) : l \in SessionLists}
    /\ drvval \in InitVals(drv)
    /\ sysfs \in SysfsWorlds
    /\ reg \in (IF sysfs.logi = 0 THEN {LedMin} ELSE LedRegisters)
    /\ Unopened

InitEnum ==
    /\ drv \in {IdSeq(l) : l \in Orders(EnumCatalog, MaxEnum)}
    /\ drvval \in InitVals(drv)
    /\ sysfs \in {[eu1 |-> 0, ids |-> <<>>, logi |-> 0]}
    /\ reg \in {LedMin}
    /\ Unopened

(* ------------------------------------------------------------------ *)
(* CameraCtrls                                                           *)
(* ------------------------------------------------------------------ *)

\* What CameraCtrls reads of a control, whichever source owns it
Base(c) ==
    [text_id |-> c.text_id, type |-> c.type, value |-> c.value,
     menu |-> [j \in 1..Len(c.menu) |-> c.menu[j].text_id]]

BaseOf(ctrls) == [j \in 1..Len(ctrls) |-> Base(ctrls[j])]

\* CameraCtrls.get_ctrls: native first, then Kiyo Pro, then Logitech
get_ctrls == BaseOf(v4l2) \o BaseOf(kiyo) \o BaseOf(logi)

TextIds(ctrls) == {ctrls[j].text_id : j \in 1..Len(ctrls)}
ValuesOf(ctrls) == [j \in 1..Len(ctrls) |-> ctrls[j].value]

\* CameraCtrls.print_ctrls: the id and the value each line shows
PrintedPairs(ctrls) ==
    [j \in 1..Len(ctrls) |-> [k |-> ctrls[j].text_id, v |-> PyStr(ctrls[j].value)]]

\* main: ctrlsmap[kv[0]] = kv[1] over the pairs; a repeated key keeps its
\* first place and takes the last value
RECURSIVE DictFromPairs(_, _)
DictFromPairs(pairs, acc) ==
    IF pairs = <<>> THEN acc
    ELSE LET at == find_by_text_id([j \in 1..Len(acc) |-> [text_id |-> acc[j].k]],
                                   pairs[1].k)
         IN  DictFromPairs(Tail(pairs),
                IF at = 0 THEN Append(acc, pairs[1])
                ELSE [acc EXCEPT ![at].v = pairs[1].v])

Keys(p) == {p[j].k : j \in 1..Len(p)}

T_x == <<"x">>
T_zoom == <<"z", "o", "o", "m">>

\* The value texts a caller may ask for a control
ValueTexts(src, c) ==
    CASE src = "v4l2" /\ c.type = "integer" -> {<<"2">>, T_x}
      [] src = "v4l2" /\ c.type = "boolean" -> {<<"0">>, <<>>}
      [] src = "v4l2" /\ c.type = "menu" ->
            {T_x} \cup (IF c.menu = <<>> THEN {} ELSE {c.menu[1].text_id})
      [] src = "kiyo" /\ c.text_id = kiyo_pro_hdr -> {T_on}
      [] src = "kiyo" /\ c.text_id = kiyo_pro_fov -> {T_medium, T_narrow, T_x}
      [] src = "logi" /\ c.type = "menu" -> {T_auto, T_x}
      [] src = "logi" /\ c.type = "integer" -> {<<"3">>, <<"3", "0", "0">>}
      [] OTHER -> {}

RequestPairs ==
    UNION ({{[k |-> v4l2[j].text_id, v |-> t] : t \in ValueTexts("v4l2", v4l2[j])} :
                j \in 1..Len(v4l2)}
           \cup {{[k |-> kiyo[j].text_id, v |-> t] : t \in ValueTexts("kiyo", kiyo[j])} :
                j \in 1..Len(kiyo)}
           \cup {{[k |-> logi[j].text_id, v |-> t] : t \in ValueTexts("logi", logi[j])} :
                j \in 1..Len(logi)}
           \cup {{[k |-> T_zoom, v |-> T_x]}})

\* The maps of at most n entries a caller may hand over: a dict, so no key twice
RECURSIVE UserMaps(_)
UserMaps(n) ==
    IF n = 0 THEN {<<>>}
    ELSE LET shorter == UserMaps(n - 1)
             longest == {m \in shorter : Len(m) = n - 1}
             pairs == RequestPairs
         IN  shorter \cup
             UNION {{Append(m, e) : e \in {x \in pairs : x.k \notin Keys(m)}} :
                        m \in longest}

Warning(kind, src, keys) == [kind |-> kind, src |-> src, keys |-> keys]

Open ==
    /\ pc = "start"
    /\ v4l2' = V4L2_get_device_controls(Reported(drv), drvval, DrvFlags(drv, drvval))
    /\ kiyo' = Kiyo_get_device_controls(sysfs.eu1, sysfs.ids)
    /\ \E ok \in ProbeOutcomes :
          logi' = Logitech_get_device_controls(sysfs.logi,
                      [def |-> LedDef, min |-> LedMin, max |-> LedMax, cur |-> reg], ok)
    /\ pc' = "idle"
    /\ UNCHANGED <<drv, drvval, sysfs, reg, params, idx, calls,
                   warnings, xulog, ioctls, hist>>

\* CameraCtrls.setup_ctrls is entered with the map p
Begin(p, listing) ==
    /\ pc = "idle"
    /\ calls = 0
    /\ params' = p
    /\ idx' = 1
    /\ pc' = "v4l2"
    /\ calls' = calls + 1
    /\ warnings' = <<>>
    /\ xulog' = <<>>
    /\ ioctls' = <<>>
    /\ hist' = [NoHist EXCEPT !.before = ValuesOf(get_ctrls), !.listing = listing]
    /\ UNCHANGED <<drv, drvval, sysfs, reg, v4l2, kiyo, logi>>

SetupCtrls ==
    /\ pc = "idle"
    /\ calls = 0
    /\ \E p \in UserMaps(MaxParams) : Begin(p, FALSE)

\* The listing of print_ctrls, fed back: every id = the value shown for it
SetupFromListing == Begin(DictFromPairs(PrintedPairs(get_ctrls), <<>>), TRUE)

(* ------------------------------------------------------------------ *)
(* V4L2Ctrls.setup_ctrls                                                 *)
(* ------------------------------------------------------------------ *)

Clamp(n, lo, hi) == IF n < lo THEN lo ELSE IF n > hi THEN hi ELSE n

\* What the driver may do with VIDIOC_S_CTRL: refuse (the ioctl raises), or
\* store a value of the control's range and hand it back in the structure.
DriverResponses(q, sent) ==
    {[raised |-> TRUE, echo |-> sent]}
    \cup {[raised |-> FALSE, echo |-> e] : e \in {Clamp(sent, q.minimum, q.maximum), q.default}}

\* The branches that turn the value text into intvalue: res is "ok", "raise"
\* (int(v) raises ValueError), "nomenu" or "unsupported"
V4L2Coerce(ctrl, v) ==
    CASE ctrl.type = "integer" ->
            IF ParseInt(v).ok THEN [res |-> "ok", intvalue |-> ParseInt(v).i]
            ELSE [res |-> "raise", intvalue |-> 0]
      [] ctrl.type = "boolean" ->
            [res |-> "ok", intvalue |-> IF PyBool(v) THEN 1 ELSE 0]
      [] ctrl.type = "menu" ->
            IF find_by_text_id(ctrl.menu, v) = 0 THEN [res |-> "nomenu", intvalue |-> 0]
            ELSE [res |-> "ok", intvalue |-> ctrl.menu[find_by_text_id(ctrl.menu, v)].value]
      [] OTHER -> [res |-> "unsupported", intvalue |-> 0]

\* V4L2Accepted without the comparison of the value handed back
V4L2AcceptedAnyEcho(resp, intvalue) == ~resp.raised

\* Whether the write is taken as done: no exception, new_ctrl.value == intvalue
V4L2Accepted(resp, intvalue) == ~resp.raised /\ resp.echo = intvalue

\* What ctrl.value becomes on success
V4L2Stored(ctrl, v, intvalue) == IF ctrl.type = "menu" THEN StrV(v) ELSE IntV(intvalue)

V4L2Note(kind, n, intvalue, raised, echo, valueBefore) ==
    [kind |-> kind, n |-> n, intvalue |-> intvalue, raised |-> raised,
     echo |-> echo, valueBefore |-> valueBefore]

\* One pass of the loop over params.items()
V4L2Step ==
    /\ pc = "v4l2"
    /\ idx <= Len(params)
    /\ LET k == params[idx].k
           v == params[idx].v
           n == find_by_text_id(v4l2, k)
       IN  IF n = 0
           THEN /\ hist' = [hist EXCEPT !.lastV4L2 = NoSet]
                /\ idx' = idx + 1
                /\ UNCHANGED <<pc, v4l2, drvval, warnings, ioctls>>
           ELSE
             LET ctrl == v4l2[n]
                 co == V4L2Coerce(ctrl, v)
                 \* v4l2_control(ctrl._id, intvalue): the c_int32 field keeps a
                 \* value of its range, and the model's requests are all in it
                 sent == co.intvalue
             IN  CASE co.res = "raise" ->
                        /\ pc' = "raised"
                        /\ hist' = [hist EXCEPT !.lastV4L2 =
                                        V4L2Note("raise", n, 0, FALSE, 0, ctrl.value)]
                        /\ UNCHANGED <<idx, v4l2, drvval, warnings, ioctls>>
                   [] co.res \in {"nomenu", "unsupported"} ->
                        /\ warnings' = Append(warnings, Warning(co.res, "v4l2", {k}))
                        /\ hist' = [hist EXCEPT !.lastV4L2 =
                                        V4L2Note(co.res, n, 0, FALSE, 0, ctrl.value)]
                        /\ idx' = idx + 1
                        /\ UNCHANGED <<pc, v4l2, drvval, ioctls>>
                   [] OTHER ->
                        \E resp \in DriverResponses(QueryCtrlOf(ctrl._id), sent) :
                            /\ ioctls' = Append(ioctls, [id |-> ctrl._id, value |-> sent])
                            /\ drvval' = IF resp.raised THEN drvval
                                         ELSE [drvval EXCEPT ![ctrl._id].val = resp.echo]
                            /\ v4l2' = IF V4L2Accepted(resp, co.intvalue)
                                       THEN [v4l2 EXCEPT ![n].value =
                                                V4L2Stored(ctrl, v, co.intvalue)]
                                       ELSE v4l2
                            /\ warnings' =
                                  IF ~resp.raised /\ ~V4L2Accepted(resp, co.intvalue)
                                  THEN Append(warnings, Warning("mismatch", "v4l2", {k}))
                                  ELSE warnings
                            /\ hist' = [hist EXCEPT
                                  !.lastV4L2 = V4L2Note("set", n, co.intvalue, resp.raised,
                                                        resp.echo, ctrl.value),
                                  !.applied = @ \cup {[src |-> "v4l2", n |-> n, key |-> k]},
                                  !.faithful = @ /\ ~resp.raised /\ resp.echo = sent]
                            /\ idx' = idx + 1
                            /\ UNCHANGED pc
    /\ UNCHANGED <<drv, sysfs, reg, kiyo, logi, params, calls, xulog>>

\* The loop is over: V4L2Ctrls.setup_ctrls returns and KiyoProCtrls' is called
V4L2Return ==
    /\ pc = "v4l2"
    /\ idx > Len(params)
    /\ pc' = "kiyo"
    /\ idx' = 1
    /\ hist' = [hist EXCEPT !.given = @ \cup {"v4l2"}]
    /\ UNCHANGED <<drv, drvval, sysfs, reg, v4l2, kiyo, logi, params, calls,
                   warnings, xulog, ioctls>>

\* V4L2Ctrls.update_ctrls: ok are the controls VIDIOC_QUERYCTRL answers for
UpdateCtrls ==
    /\ pc = "idle"
    /\ \E ok \in SUBSET IdSet(drv) :
          v4l2' = [j \in 1..Len(v4l2) |->
                      IF v4l2[j]._id \in ok
                      THEN [v4l2[j] EXCEPT !.inactive =
                              FlagInactive(DrvFlags(drv, drvval)[v4l2[j]._id])]
                      ELSE v4l2[j]]
    /\ UNCHANGED <<drv, drvval, sysfs, reg, kiyo, logi, pc, params, idx, calls,
                   warnings, xulog, ioctls, hist>>

(* ------------------------------------------------------------------ *)
(* KiyoProCtrls.setup_ctrls                                              *)
(* ------------------------------------------------------------------ *)

RECURSIVE XuSetCurs(_, _, _)
XuSetCurs(unit, selector, frames) ==
    IF frames = <<>> THEN <<>>
    ELSE XuRequests(unit, selector, UVC_SET_CUR, frames[1])
         \o XuSetCurs(unit, selector, Tail(frames))

\* One pass of the loop over params.items()
KiyoStep ==
    /\ pc = "kiyo"
    /\ KiyoSupported(sysfs.eu1, sysfs.ids)
    /\ idx <= Len(params)
    /\ LET k == params[idx].k
           v == params[idx].v
           n == find_by_text_id(kiyo, k)
           m == IF n = 0 THEN 0 ELSE find_by_text_id(kiyo[n].menu, v)
       IN  IF n = 0 THEN UNCHANGED <<kiyo, warnings, xulog, hist>>
           ELSE IF m = 0
           THEN /\ warnings' = Append(warnings, Warning("nomenu", "kiyo", {k}))
                /\ UNCHANGED <<kiyo, xulog, hist>>
           ELSE /\ kiyo' = [kiyo EXCEPT ![n].value = StrV(kiyo[n].menu[m].text_id)]
                /\ xulog' = xulog \o XuSetCurs(sysfs.eu1, EU1_SET_ISP,
                                               KiyoEntryFrames(kiyo[n].menu[m]))
                /\ hist' = [hist EXCEPT
                                !.applied = @ \cup {[src |-> "kiyo", n |-> n, key |-> k]}]
                /\ UNCHANGED warnings
    /\ idx' = idx + 1
    /\ UNCHANGED <<drv, drvval, sysfs, reg, v4l2, logi, pc, params, calls, ioctls>>

\* The frames sent after the loop
KiyoTrailer == <<SAVE>>

\* KiyoProCtrls.setup_ctrls returns: at once when the device is not supported,
\* else after the loop and the trailing SAVE; LogitechCtrls' is called
KiyoReturn ==
    /\ pc = "kiyo"
    /\ ~KiyoSupported(sysfs.eu1, sysfs.ids) \/ idx > Len(params)
    /\ xulog' = IF KiyoSupported(sysfs.eu1, sysfs.ids)
                THEN xulog \o XuSetCurs(sysfs.eu1, EU1_SET_ISP, KiyoTrailer)
                ELSE xulog
    /\ pc' = "logi"
    /\ idx' = 1
    /\ hist' = [hist EXCEPT !.given = @ \cup {"kiyo"}]
    /\ UNCHANGED <<drv, drvval, sysfs, reg, v4l2, kiyo, logi, params, calls,
                   warnings, ioctls>>

(* ------------------------------------------------------------------ *)
(* LogitechCtrls.setup_ctrls                                             *)
(* ------------------------------------------------------------------ *)

\* How one query_xu_control may go: its GET_LEN, then its payload request
XuOutcomes ==
    {[lenOk |-> TRUE, ok |-> TRUE], [lenOk |-> FALSE, ok |-> TRUE],
     [lenOk |-> TRUE, ok |-> FALSE]}

\* The branches that turn the value text into desired: res is "ok", "raise"
\* (int(v) raises ValueError), "nomenu" or "unsupported"
LogitechCoerce(ctrl, v) ==
    CASE ctrl.type = "menu" ->
            IF find_by_text_id(ctrl.menu, v) = 0 THEN [res |-> "nomenu", desired |-> 0]
            ELSE [res |-> "ok", desired |-> ctrl.menu[find_by_text_id(ctrl.menu, v)].value]
      [] ctrl.type = "integer" ->
            IF ParseInt(v).ok THEN [res |-> "ok", desired |-> ParseInt(v).i]
            ELSE [res |-> "raise", desired |-> 0]
      [] OTHER -> [res |-> "unsupported", desired |-> 0]

\* current_config[ctrl._offset] = desired: a c_char takes 0..255, else TypeError
FitsChar(n) == n \in 0..255

\* desired and current as they are compared and stored: for a menu control,
\* each mapped to its entry's text id where an entry has that value
LogitechShown(ctrl, byte) ==
    IF ctrl.type = "menu" THEN MenuText(ctrl.menu, byte) ELSE IntV(byte)

\* LogitechAccepted without the comparison
LogitechAcceptedUnread(current, desired) == TRUE

\* if current != desired: continue
LogitechAccepted(current, desired) == current = desired

LogiNote(kind, n, desired, regBefore, frame, o, regAfter, current, valueBefore) ==
    [kind |-> kind, n |-> n, desired |-> desired, regBefore |-> regBefore,
     frame |-> frame, getOk |-> XuTransfers(o.get.lenOk, o.get.ok, Len(regBefore)),
     setOk |-> XuTransfers(o.set.lenOk, o.set.ok, Len(regBefore)),
     rbOk |-> XuTransfers(o.rb.lenOk, o.rb.ok, Len(regBefore)),
     regAfter |-> regAfter, current |-> current, valueBefore |-> valueBefore]

AllOk == [get |-> [lenOk |-> TRUE, ok |-> TRUE], set |-> [lenOk |-> TRUE, ok |-> TRUE],
          rb |-> [lenOk |-> TRUE, ok |-> TRUE]]

\* One pass of the loop over params.items()
LogitechStep ==
    /\ pc = "logi"
    /\ LogitechSupported(sysfs.logi)
    /\ idx <= Len(params)
    /\ LET k == params[idx].k
           v == params[idx].v
           n == find_by_text_id(logi, k)
       IN  IF n = 0
           THEN /\ hist' = [hist EXCEPT !.lastLogi = NoSet]
                /\ idx' = idx + 1
                /\ UNCHANGED <<pc, logi, reg, warnings, xulog>>
           ELSE
             LET ctrl == logi[n]
                 co == LogitechCoerce(ctrl, v)
                 get_cur == XuRequests(sysfs.logi, ctrl.selector, UVC_GET_CUR, <<>>)
             IN  CASE co.res = "raise" ->
                        /\ pc' = "raised"
                        /\ hist' = [hist EXCEPT !.lastLogi =
                                LogiNote("raise", n, 0, reg, <<>>, AllOk, reg, 0, ctrl.value)]
                        /\ UNCHANGED <<idx, logi, reg, warnings, xulog>>
                   [] co.res \in {"nomenu", "unsupported"} ->
                        /\ warnings' = Append(warnings, Warning(co.res, "logi", {k}))
                        /\ hist' = [hist EXCEPT !.lastLogi =
                                LogiNote(co.res, n, 0, reg, <<>>, AllOk, reg, 0, ctrl.value)]
                        /\ idx' = idx + 1
                        /\ UNCHANGED <<pc, logi, reg, xulog>>
                   [] OTHER ->
                        \E o \in [get : XuOutcomes, set : XuOutcomes, rb : XuOutcomes] :
                          LET read == XuGet(reg, ZeroBuf(ctrl.len), o.get.lenOk, o.get.ok)
                          IN  IF ~FitsChar(co.desired)
                              THEN /\ pc' = "raised"
                                   /\ xulog' = xulog \o get_cur
                                   /\ hist' = [hist EXCEPT !.lastLogi =
                                        LogiNote("raise", n, co.desired, reg, <<>>, o, reg, 0,
                                                 ctrl.value)]
                                   /\ UNCHANGED <<idx, logi, reg, warnings>>
                              ELSE
                                LET current_config ==
                                        [read EXCEPT ![ctrl.offset + 1] = co.desired]
                                    regAfter == XuSet(reg, current_config, o.set.lenOk, o.set.ok)
                                    readback == XuGet(regAfter, current_config,
                                                      o.rb.lenOk, o.rb.ok)
                                    current == readback[ctrl.offset + 1]
                                    accepted ==
                                        LogitechAccepted(LogitechShown(ctrl, current),
                                                         LogitechShown(ctrl, co.desired))
                                IN  /\ reg' = regAfter
                                    /\ xulog' = xulog \o get_cur
                                            \o XuRequests(sysfs.logi, ctrl.selector,
                                                          UVC_SET_CUR, current_config)
                                            \o get_cur
                                    /\ logi' = IF accepted
                                               THEN [logi EXCEPT ![n].value =
                                                        LogitechShown(ctrl, co.desired)]
                                               ELSE logi
                                    /\ warnings' =
                                          IF accepted THEN warnings
                                          ELSE Append(warnings,
                                                      Warning("mismatch", "logi", {k}))
                                    /\ hist' = [hist EXCEPT
                                          !.lastLogi =
                                              LogiNote("set", n, co.desired, reg,
                                                       SubSeq(current_config, 1, Len(reg)),
                                                       o, regAfter, current, ctrl.value),
                                          !.applied =
                                              @ \cup {[src |-> "logi", n |-> n, key |-> k]},
                                          !.faithful =
                                              @ /\ XuTransfers(o.get.lenOk, o.get.ok, Len(reg))
                                                /\ XuTransfers(o.set.lenOk, o.set.ok, Len(reg))
                                                /\ XuTransfers(o.rb.lenOk, o.rb.ok, Len(reg))]
                                    /\ idx' = idx + 1
                                    /\ UNCHANGED pc
    /\ UNCHANGED <<drv, drvval, sysfs, v4l2, kiyo, params, calls, ioctls>>

\* LogitechCtrls.setup_ctrls returns: at once when the unit is absent, else
\* after the loop
LogitechReturn ==
    /\ pc = "logi"
    /\ ~LogitechSupported(sysfs.logi) \/ idx > Len(params)
    /\ pc' = "report"
    /\ idx' = 0
    /\ hist' = [hist EXCEPT !.given = @ \cup {"logi"}]
    /\ UNCHANGED <<drv, drvval, sysfs, reg, v4l2, kiyo, logi, params, calls,
                   warnings, xulog, ioctls>>

\* set(params.keys()) - set(text ids of get_ctrls())
UnknownCtrls == Keys(params) \ TextIds(get_ctrls)

\* The end of CameraCtrls.setup_ctrls: the warning for the unknown ids
ReportUnknown ==
    /\ pc = "report"
    /\ warnings' = IF Cardinality(UnknownCtrls) > 0
                   THEN Append(warnings, Warning("unknown_ctrls", "camera", UnknownCtrls))
                   ELSE warnings
    /\ pc' = "idle"
    /\ UNCHANGED <<drv, drvval, sysfs, reg, v4l2, kiyo, logi, params, idx, calls,
                   xulog, ioctls, hist>>

(* ------------------------------------------------------------------ *)
(* Specifications                                                        *)
(* ------------------------------------------------------------------ *)

Next ==
    \/ Open
    \/ SetupCtrls
    \/ SetupFromListing
    \/ V4L2Step
    \/ V4L2Return
    \/ KiyoStep
    \/ KiyoReturn
    \/ LogitechStep
    \/ LogitechReturn
    \/ ReportUnknown
    \/ UpdateCtrls

\* A session on a device: opened, listed, set, refreshed
Spec == Init /\ [][Next]_vars

NextEnum == Open

\* The enumeration of the driver's controls, in any order it may report them
SpecEnum == InitEnum /\ [][NextEnum]_vars

(* ------------------------------------------------------------------ *)
(* Sessions by the kind of device                                        *)
(* ------------------------------------------------------------------ *)

\* A Kiyo Pro: LogitechCtrls is not supported, its loop never runs
InitKiyo == Init /\ KiyoSupported(sysfs.eu1, sysfs.ids)

NextKiyo ==
    \/ Open
    \/ SetupCtrls
    \/ SetupFromListing
    \/ V4L2Step
    \/ V4L2Return
    \/ KiyoStep
    \/ KiyoReturn
    \/ LogitechReturn
    \/ ReportUnknown
    \/ UpdateCtrls

SpecKiyo == InitKiyo /\ [][NextKiyo]_vars

\* A camera with the Logitech peripheral unit: KiyoProCtrls is not supported
InitLogitech == Init /\ LogitechSupported(sysfs.logi)

NextLogitech ==
    \/ Open
    \/ SetupCtrls
    \/ SetupFromListing
    \/ V4L2Step
    \/ V4L2Return
    \/ KiyoReturn
    \/ LogitechStep
    \/ LogitechReturn
    \/ ReportUnknown
    \/ UpdateCtrls

SpecLogitech == InitLogitech /\ [][NextLogitech]_vars

\* A camera with neither vendor unit: only V4L2Ctrls has controls
InitNative == Init /\ ~KiyoSupported(sysfs.eu1, sysfs.ids) /\ ~LogitechSupported(sysfs.logi)

NextNative ==
    \/ Open
    \/ SetupCtrls
    \/ SetupFromListing
    \/ V4L2Step
    \/ V4L2Return
    \/ KiyoReturn
    \/ LogitechReturn
    \/ ReportUnknown
    \/ UpdateCtrls

SpecNative == InitNative /\ [][NextNative]_vars

(* ------------------------------------------------------------------ *)
(* Properties                                                            *)
(* ------------------------------------------------------------------ *)

\* The payload frames the running call has sent to the Kiyo Pro unit, in order
KiyoPayloads ==
    LET IsSetCur(r) == /\ r.query = UVC_SET_CUR
                       /\ r.unit = sysfs.eu1
                       /\ r.selector = EU1_SET_ISP
        sent == SelectSeq(xulog, IsSetCur)
    IN  [j \in 1..Len(sent) |-> sent[j].data]

\* Every menu entry of the Kiyo Pro controls
KiyoEntries == UNION {{kiyo[n].menu[m] : m \in 1..Len(kiyo[n].menu)} : n \in 1..Len(kiyo)}

Count(seq, x) == Cardinality({j \in 1..Len(seq) : seq[j] = x})

\* C1: in KiyoProCtrls.setup_ctrls on a supported device, the main frame of
\* an entry that has a preparatory frame is always directly preceded by that
\* preparatory frame, no SAVE is sent while the loop over the map runs, and
\* once the call has returned SAVE has been sent exactly once, as the last
\* payload frame, however many entries of the map were Kiyo Pro controls.
KiyoPreFrameThenMainThenOneSave ==
    KiyoSupported(sysfs.eu1, sysfs.ids) =>
        LET P == KiyoPayloads
        IN  /\ \A e \in KiyoEntries : \A j \in 1..Len(P) :
                  (e.before # <<>> /\ P[j] = e.value) =>
                      (j > 1 /\ P[j - 1] = e.before)
            /\ (pc \in {"v4l2", "kiyo"}) => Count(P, SAVE) = 0
            /\ ("kiyo" \in hist.given) =>
                  (Count(P, SAVE) = 1 /\ P[Len(P)] = SAVE)

\* A call that set two Kiyo Pro controls, one of them the FOV to an entry
\* with a preparatory frame, has returned
KiyoTwoControlsSetWitness ==
    /\ pc = "idle" /\ calls = 1
    /\ KiyoSupported(sysfs.eu1, sysfs.ids)
    /\ KiyoPayloads = <<HDR_ON, FOV_NARROW_PRE, FOV_NARROW, SAVE>>

\* C2: a LogitechCtrls set changes no byte of the register but the one at the
\* control's offset, whatever way its requests go: the frame SET_CUR carries
\* and the register after the set both agree with the register before the set
\* at every other byte.
LogitechSetChangesOneByte ==
    LET h == hist.lastLogi
    IN  h.kind = "set" =>
            \A b \in 1..Len(h.regBefore) :
                b # logi[h.n].offset + 1 =>
                    /\ h.frame[b] = h.regBefore[b]
                    /\ h.regAfter[b] = h.regBefore[b]

\* The value text the running call's map gives for the id k
ParamOf(k) == params[CHOOSE j \in 1..Len(params) : params[j].k = k].v

\* What the claims take as the requested value of a Logitech control: the
\* text id of the requested entry for a menu, the parsed integer otherwise
LogitechRequested(ctrl) ==
    IF ctrl.type = "menu" THEN StrV(ParamOf(ctrl.text_id))
    ELSE IntV(ParseInt(ParamOf(ctrl.text_id)).i)

\* C3: after a LogitechCtrls set, when the byte at the control's offset of the
\* frame read back differs from the requested byte the stored value is the
\* value from before the set; when it equals the requested byte the stored
\* value is the requested value (the text id of the requested menu entry, or
\* the parsed integer).
LogitechReadbackDecidesStoredValue ==
    LET h == hist.lastLogi
    IN  h.kind = "set" =>
            /\ h.current # h.desired => logi[h.n].value = h.valueBefore
            /\ h.current = h.desired => logi[h.n].value = LogitechRequested(logi[h.n])

\* A set whose write failed and whose readback went through: the byte read
\* back is the old one, and the stored value is the old one
LogitechMismatchWitness ==
    LET h == hist.lastLogi
    IN  /\ h.kind = "set"
        /\ h.rbOk /\ ~h.setOk
        /\ h.current # h.desired
        /\ logi[h.n].value = h.valueBefore
        /\ logi[h.n].value # LogitechRequested(logi[h.n])

HasWarning(kind) == \E j \in 1..Len(warnings) : warnings[j].kind = kind

\* C4: when setup_ctrls is given the listing of print_ctrls (every id with
\* the text shown as its value) and the device takes every write and echoes
\* it, no control's stored value differs from the one before the call and no
\* value-mismatch warning is logged.
ListingRoundTripIsNoOp ==
    (hist.listing /\ hist.faithful) =>
        /\ ValuesOf(get_ctrls) = hist.before
        /\ ~HasWarning("mismatch")

\* C5: once the controls are discovered, the stored value of every menu
\* control of the merged list is the text id of one of its own entries.
MenuValueIsEntryTextId ==
    pc # "start" =>
        \A j \in 1..Len(get_ctrls) :
            LET c == get_ctrls[j]
            IN  c.type = "menu" =>
                    /\ c.value.k = "str"
                    /\ \E m \in 1..Len(c.menu) : c.menu[m] = c.value.s

\* C6: no two controls of the merged list have the same text id, and no
\* entry of a map is applied to more than one control.
MergedTextIdsUnique ==
    /\ \A i, j \in 1..Len(get_ctrls) :
          i # j => get_ctrls[i].text_id # get_ctrls[j].text_id
    /\ \A a, b \in hist.applied : a.key = b.key => a = b

\* C7: setup_ctrls never ends in an exception, and when it has returned every
\* source was given the map.
SetManyNeverAborts ==
    /\ pc # "raised"
    /\ (pc = "idle" /\ calls = 1) => hist.given = {"v4l2", "kiyo", "logi"}

UnknownWarnings == {j \in 1..Len(warnings) : warnings[j].kind = "unknown_ctrls"}

\* What an ended call must have logged about unknown ids: nothing when every
\* key is some control's id, else one warning, the last, naming those keys
UnknownIdsLogged ==
    IF Keys(params) \subseteq TextIds(get_ctrls) THEN UnknownWarnings = {}
    ELSE /\ UnknownWarnings = {Len(warnings)}
         /\ warnings[Len(warnings)].keys = Keys(params) \ TextIds(get_ctrls)

\* C8: every setup_ctrls call, however it ends, reports the keys that are no
\* control's id in one warning issued after the three sources ran, reports
\* nothing when there is none, and reports nothing before the sources ran.
UnknownIdsReportedOnce ==
    /\ (pc \in {"v4l2", "kiyo", "logi", "report"}) => UnknownWarnings = {}
    /\ (calls = 1 /\ pc \in {"idle", "raised"}) => UnknownIdsLogged

\* The ids of the controls V4L2Ctrls lists, in the order the driver gave them
ReportedOrder ==
    LET Listed(id) == QueryCtrlOf(id).type \in EnumeratedTypes
    IN  SelectSeq(drv, Listed)

\* C9: after the enumeration, for each pair of V4L2_CTRL_REORDERS with both
\* controls present the updater sits directly before its dependent control,
\* and when no pair has both present the list is in the driver's order.
UpdaterDirectlyBeforeDependent ==
    pc = "idle" =>
        LET Both(r) == /\ find_idx(v4l2, V4L2_CTRL_REORDERS[r][1]) # -1
                       /\ find_idx(v4l2, V4L2_CTRL_REORDERS[r][2]) # -1
            R == 1..Len(V4L2_CTRL_REORDERS)
        IN  /\ \A r \in R :
                  Both(r) => find_idx(v4l2, V4L2_CTRL_REORDERS[r][1]) + 1
                                = find_idx(v4l2, V4L2_CTRL_REORDERS[r][2])
            /\ (\A r \in R : ~Both(r)) =>
                  [j \in 1..Len(v4l2) |-> v4l2[j]._id] = ReportedOrder

\* C10: after a V4L2Ctrls set, the stored value differs from the one before
\* the set only if VIDIOC_S_CTRL went through and gave back the requested
\* integer; it is the one before the set when the driver refused or gave back
\* another value; and for a menu entry name that matches no entry, it is the
\* one before the set and no VIDIOC_S_CTRL was issued for the control.
NativeStoredValueFollowsEcho ==
    LET h == hist.lastV4L2
    IN  h.kind # "none" =>
            /\ v4l2[h.n].value # h.valueBefore =>
                  (h.kind = "set" /\ ~h.raised /\ h.echo = h.intvalue)
            /\ (h.kind = "set" /\ (h.raised \/ h.echo # h.intvalue)) =>
                  v4l2[h.n].value = h.valueBefore
            /\ h.kind = "nomenu" =>
                  /\ v4l2[h.n].value = h.valueBefore
                  /\ \A j \in 1..Len(ioctls) : ioctls[j].id # v4l2[h.n]._id

\* A set the driver took but answered with another value than the one asked
NativeEchoMismatchWitness ==
    LET h == hist.lastV4L2
    IN  /\ h.kind = "set"
        /\ ~h.raised
        /\ h.echo # h.intvalue
        /\ v4l2[h.n].value = h.valueBefore
        /\ HasWarning("mismatch")

(* ------------------------------------------------------------------ *)
(* The sysfs scans of the constructors                                   *)
(* ------------------------------------------------------------------ *)

\* pieces a descriptors blob of the model is put together from
MaxPieces == 4

UVC_EU1_GUID ==
    <<208, 158, 228, 35, 120, 17, 49, 79, 174, 82, 210, 251, 138, 141, 59, 72>>

LOGITECH_PERIPHERAL_GUID ==
    <<33, 45, 229, 255, 48, 128, 44, 78, 130, 217, 245, 135, 208, 5, 64, 189>>

\* A file of sysfs: whether os.path.isfile finds it, whether open and read go
\* through, and what it holds
SysFile(isfile, readable, data) ==
    [isfile |-> isfile, readable |-> readable, data |-> data]

\* bytes.rfind(sub): the highest offset sub starts at
BytesFindLast(s, sub) ==
    IF \E k \in 0..(Len(s) - Len(sub)) : SubSeq(s, k + 1, k + Len(sub)) = sub
    THEN CHOOSE k \in 0..(Len(s) - Len(sub)) :
            /\ SubSeq(s, k + 1, k + Len(sub)) = sub
            /\ \A j \in (k + 1)..(Len(s) - Len(sub)) : SubSeq(s, j + 1, j + Len(sub)) # sub
    ELSE -1

\* bytes.find(sub): the lowest offset sub starts at, -1 when there is none
BytesFind(s, sub) ==
    IF \E k \in 0..(Len(s) - Len(sub)) : SubSeq(s, k + 1, k + Len(sub)) = sub
    THEN CHOOSE k \in 0..(Len(s) - Len(sub)) :
            /\ SubSeq(s, k + 1, k + Len(sub)) = sub
            /\ \A j \in 0..(k - 1) : SubSeq(s, j + 1, j + Len(sub)) # sub
    ELSE -1

\* find_unit_id_in_sysfs: 0 when descfile is no file, when reading it raises,
\* and when find gives no offset above 0
find_unit_id_in_sysfs(descfile, guid) ==
    IF ~descfile.isfile THEN 0
    ELSE IF ~descfile.readable THEN 0
    ELSE LET guid_start == BytesFind(descfile.data, guid)
         IN  IF guid_start > 0 THEN descfile.data[guid_start] ELSE 0

\* str.strip(): white space off both ends
RECURSIVE Strip(_)
Strip(t) ==
    IF t # <<>> /\ t[1] \in {" ", "\n", "\t"} THEN Strip(Tail(t))
    ELSE IF t # <<>> /\ t[Len(t)] \in {" ", "\n", "\t"}
         THEN Strip(SubSeq(t, 1, Len(t) - 1))
    ELSE t

\* read_usb_id_from_file: '' when open or read raises
read_usb_id_from_file(file) ==
    IF file.readable THEN Strip(file.data) ELSE <<>>

\* find_usb_ids_in_sysfs
find_usb_ids_in_sysfs(vendorfile, productfile) ==
    IF ~vendorfile.isfile \/ ~productfile.isfile THEN <<>>
    ELSE read_usb_id_from_file(vendorfile) \o <<":">>
            \o read_usb_id_from_file(productfile)

\* The blobs the model reads: up to n pieces, each a byte or a GUID
RECURSIVE Blobs(_)
Blobs(n) ==
    IF n = 0 THEN {<<>>}
    ELSE Blobs(n - 1) \cup
         {b \o p : b \in Blobs(n - 1),
                   p \in {<<0>>, <<3>>, <<4>>, UVC_EU1_GUID, LOGITECH_PERIPHERAL_GUID}}

\* Before the constructors have looked at sysfs.  A file of sysfs may be
\* missing, there but not to be read, or there.  Every descriptors blob is
\* taken beside the id files of a Kiyo Pro, and every pair of id files beside
\* a blob with the EU1 unit and a blob without
InitScan ==
    /\ LET DescFiles ==
               {SysFile(FALSE, FALSE, <<>>)}
                   \cup {SysFile(TRUE, r, b) : r \in BOOLEAN, b \in Blobs(MaxPieces)}
           IdTexts ==
               {<<"1", "5", "3", "2", "\n">>, <<"0", "e", "0", "5", "\n">>,
                <<"0", "4", "6", "d", "\n">>, <<" ", "0", "8", "9", "2">>, <<>>}
           IdFiles ==
               {SysFile(FALSE, FALSE, <<>>)}
                   \cup {SysFile(TRUE, r, t) : r \in BOOLEAN, t \in IdTexts}
           Worlds ==
               {<<d, SysFile(TRUE, TRUE, <<"1", "5", "3", "2", "\n">>),
                     SysFile(TRUE, TRUE, <<"0", "e", "0", "5", "\n">>)>> :
                    d \in DescFiles}
                 \cup
               {<<d, v, p>> : d \in {SysFile(TRUE, TRUE, <<3>> \o UVC_EU1_GUID),
                                     SysFile(TRUE, TRUE, <<3, 4>>)},
                              v \in IdFiles, p \in IdFiles}
       IN  sysfs \in {[desc |-> w[1], vendor |-> w[2], product |-> w[3],
                       eu1 |-> 0, ids |-> <<>>, logi |-> 0] : w \in Worlds}
    /\ drv = <<>> /\ drvval = <<>>
    /\ reg \in LedRegisters
    /\ v4l2 = <<>> /\ kiyo = <<>> /\ logi = <<>>
    /\ pc = "files" /\ params = <<>> /\ idx = 0 /\ calls = 0
    /\ warnings = <<>> /\ xulog = <<>> /\ ioctls = <<>> /\ hist = NoHist

\* KiyoProCtrls.__init__ and LogitechCtrls.__init__: the unit ids and the usb
\* ids are read off sysfs
ScanSysfs ==
    /\ pc = "files"
    /\ sysfs' = [sysfs EXCEPT
                    !.eu1 = find_unit_id_in_sysfs(sysfs.desc, UVC_EU1_GUID),
                    !.ids = find_usb_ids_in_sysfs(sysfs.vendor, sysfs.product),
                    !.logi = find_unit_id_in_sysfs(sysfs.desc, LOGITECH_PERIPHERAL_GUID)]
    /\ pc' = "start"
    /\ UNCHANGED <<drv, drvval, reg, v4l2, kiyo, logi, params, idx, calls,
                   warnings, xulog, ioctls, hist>>

NextScan == ScanSysfs \/ Open

SpecScan == InitScan /\ [][NextScan]_vars

(* ------------------------------------------------------------------ *)
(* Properties of the sysfs scans                                         *)
(* ------------------------------------------------------------------ *)

\* The descriptors file is there and reading it goes through
DescRead == sysfs.desc.isfile /\ sysfs.desc.readable

\* guid stands in the descriptors blob at offset k
OccursAt(guid, k) ==
    /\ k + Len(guid) <= Len(sysfs.desc.data)
    /\ SubSeq(sysfs.desc.data, k + 1, k + Len(guid)) = guid

Occurs(guid) == \E k \in 0..Len(sysfs.desc.data) : OccursAt(guid, k)

\* What the constructors hold as the unit id found for guid
UnitIdFound(guid) == IF guid = UVC_EU1_GUID THEN sysfs.eu1 ELSE sysfs.logi

\* C11: for every descriptors blob and either 16-byte GUID, once the scan is
\* done: if the GUID stands in the blob at an offset k > 0 the unit id found
\* is the byte at offset k-1, and if the GUID stands nowhere in the blob, or
\* the descriptors file is missing or cannot be read, the unit id found is 0.
UnitIdIsByteBeforeGuid ==
    pc # "files" =>
        \A guid \in {UVC_EU1_GUID, LOGITECH_PERIPHERAL_GUID} :
            /\ \A k \in 1..Len(sysfs.desc.data) :
                  (DescRead /\ OccursAt(guid, k)) =>
                        UnitIdFound(guid) = sysfs.desc.data[k]
            /\ (~DescRead \/ ~Occurs(guid)) => UnitIdFound(guid) = 0

\* C11 as amended: the offset that counts is the lowest one the GUID stands
\* at. If that offset is k > 0 the unit id found is the byte at offset k-1; if
\* it is 0, or the GUID stands nowhere, or the descriptors file is missing or
\* cannot be read, the unit id found is 0.
UnitIdIsByteBeforeFirstGuid ==
    pc # "files" =>
        \A guid \in {UVC_EU1_GUID, LOGITECH_PERIPHERAL_GUID} :
            /\ \A k \in 1..Len(sysfs.desc.data) :
                  (/\ DescRead
                   /\ OccursAt(guid, k)
                   /\ \A j \in 0..(k - 1) : ~OccursAt(guid, j)) =>
                        UnitIdFound(guid) = sysfs.desc.data[k]
            /\ (~DescRead \/ ~Occurs(guid) \/ OccursAt(guid, 0)) =>
                  UnitIdFound(guid) = 0

\* A blob read with the EU1 GUID at the offsets 1 and 18, behind the bytes 3
\* and 4: the unit id found is 3
UnitIdFirstOfTwoWitness ==
    /\ pc # "files"
    /\ DescRead
    /\ sysfs.desc.data = <<3>> \o UVC_EU1_GUID \o <<4>> \o UVC_EU1_GUID
    /\ sysfs.eu1 = 3
    /\ sysfs.logi = 0

\* An id file is there and reading it goes through
IdRead(file) == file.isfile /\ file.readable

\* C12: once the scan is done the usb ids are the vendor id, ':' and the
\* product id as the two id files hold them when both files were read, and
\* the empty string whenever either file is missing or cannot be read (never
\* a part such as ':' or 'vendor:'); and the Kiyo Pro source is supported
\* only when both ids were read and the usb ids are 1532:0e05.
UsbIdsWholeOrEmpty ==
    pc # "files" =>
        /\ (IdRead(sysfs.vendor) /\ IdRead(sysfs.product)) =>
              sysfs.ids = Strip(sysfs.vendor.data) \o <<":">> \o Strip(sysfs.product.data)
        /\ ~(IdRead(sysfs.vendor) /\ IdRead(sysfs.product)) => sysfs.ids = <<>>
        /\ KiyoSupported(sysfs.eu1, sysfs.ids) =>
              /\ IdRead(sysfs.vendor) /\ IdRead(sysfs.product)
              /\ sysfs.ids = KIYO_PRO_USB_ID

(* ------------------------------------------------------------------ *)
(* The text id of a control the driver names                             *)
(* ------------------------------------------------------------------ *)

\* characters of a display name
MaxName == 5

\* The names the driver may give a control: letters, a digit, space, '-',
\* and punctuation
RECURSIVE Names(_)
Names(n) ==
    IF n = 0 THEN {<<>>}
    ELSE Names(n - 1) \cup
         {Append(t, c) : t \in Names(n - 1),
                         c \in {"A", "b", "1", " ", "-", ",", "(", ":"}}

\* The driver reports one integer control of the user class, of any name
InitNames ==
    /\ drv \in {<<QueryCtrl(V4L2_CID_BASE, V4L2_CTRL_TYPE_INTEGER, name,
                            0, 10, 1, 5, <<>>, {[val |-> 5, readable |-> TRUE]})>> :
                   name \in Names(MaxName)}
    /\ drvval = [id \in {V4L2_CID_BASE} |-> [val |-> 5, readable |-> TRUE]]
    /\ sysfs = [eu1 |-> 0, ids |-> <<>>, logi |-> 0]
    /\ reg = LedMin
    /\ Unopened

\* CameraCtrls.__init__ on a device without extension units; drv holds the
\* driver's answers to VIDIOC_QUERYCTRL themselves
OpenNamed ==
    /\ pc = "start"
    /\ v4l2' = V4L2_get_device_controls(drv, drvval, [id \in {V4L2_CID_BASE} |-> 0])
    /\ kiyo' = Kiyo_get_device_controls(sysfs.eu1, sysfs.ids)
    /\ logi' = <<>>
    /\ pc' = "idle"
    /\ UNCHANGED <<drv, drvval, sysfs, reg, params, idx, calls,
                   warnings, xulog, ioctls, hist>>

SpecNames == InitNames /\ [][OpenNamed]_vars

\* C13: for every display name over the alphabet, the text id of the control
\* built from it holds only lower-case letters, digits and '_', and no two
\* '_' next to each other, however long the runs of separators in the name.
TextIdIsFolded ==
    pc = "idle" =>
        LET id == v4l2[1].text_id
        IN  /\ \A j \in 1..Len(id) :
                  \/ \E l \in 1..26 : LowerCase[l] = id[j]
                  \/ IsDigit(id[j])
                  \/ id[j] = "_"
            /\ \A j \in 1..(Len(id) - 1) : ~(id[j] = "_" /\ id[j + 1] = "_")

(* ------------------------------------------------------------------ *)
(* The stored value of a Logitech control and the device                 *)
(* ------------------------------------------------------------------ *)

\* C14: after a LogitechCtrls set, whichever of its requests failed: the
\* stored value has been changed only if the register's byte at the
\* control's offset is the requested byte when the set ends; and a set whose
\* SET_CUR failed and whose GET_CUR for the readback failed leaves the stored
\* value as it was.
LogitechStoredValueTracksDevice ==
    LET h == hist.lastLogi
    IN  h.kind = "set" =>
            /\ logi[h.n].value # h.valueBefore =>
                  h.regAfter[logi[h.n].offset + 1] = h.desired
            /\ (~h.setOk /\ ~h.rbOk) => logi[h.n].value = h.valueBefore

============================================================================
